---- MODULE Spec2Model ----
(***************************************************************************)
(* A model of the portfolio site's request handlers: the contact-message   *)
(* intake (info.contact_view, ContactView.post, contact_view_function) and *)
(* the project listing (info.projects_view), over the ContactMessage,      *)
(* Project and TechTag tables and the rate-limit cache.                    *)
(*                                                                         *)
(* Text is a sequence of one-character strings, so that trimming, markup   *)
(* stripping, lower-casing, substring search and integer parsing are       *)
(* computed rather than assumed.  Time is counted in ticks of half an hour.*)
(***************************************************************************)
EXTENDS Integers, Sequences, FiniteSets, TLC

VARIABLES
    now,              \* timezone.now(), in ticks
    contactMessages,  \* the ContactMessage table, in insertion order (id = index)
    cache,            \* django cache: key (REMOTE_ADDR) -> [value, expires]
    projects,         \* the Project table, in insertion order (id = index)
    techTags,         \* the TechTag table: the set of tag names
    workers,          \* concurrent request workers inside contact_view
    outbox,           \* the mails send_mail has handed over, in order
    resp              \* the response of the request being answered, or NoResp

vars == <<now, contactMessages, cache, projects, techTags, workers, outbox, resp>>

(***************************************************************************)
(* Bounds of the model.                                                    *)
(***************************************************************************)
MaxTime == 3
MaxMessages == 4
MaxMails == 4
MaxProjects == 7
MaxTagProjects == 4
MaxDetailProjects == 6
MaxSiteProjects == 1
MaxRedirectProjects == 3
MaxAjaxProjects == 4
MaxFeedProjects == 11
MaxSitemapProjects == 4

(***************************************************************************)
(* Program constants.                                                      *)
(***************************************************************************)
Hour == 2
RateLimit == 3
NameMin == 2
NameMax == 100
MessageMin == 10
MessageMax == 2000
SubjectMax == 200
PostSubjectMin == 5
CacheTimeout == 2
RelatedLimit == 4
FeedLimit == 10
FilterLimit == 20
PageSize == 6
SearchMax == 100
TechMax == 50

(***************************************************************************)
(* Text.                                                                   *)
(***************************************************************************)
UpperChars == <<"A","B","C","D","E","F","G","H","I","J","K","L","M",
                "N","O","P","Q","R","S","T","U","V","W","X","Y","Z">>
LowerChars == <<"a","b","c","d","e","f","g","h","i","j","k","l","m",
                "n","o","p","q","r","s","t","u","v","w","x","y","z">>
Digits == {"0","1","2","3","4","5","6","7","8","9"}
Letters == {UpperChars[i] : i \in 1..26} \cup {LowerChars[i] : i \in 1..26}

Rep(c, n) == [i \in 1..n |-> c]

UpperSet == {UpperChars[i] : i \in 1..26}
LowerOf == [c \in UpperSet |-> LowerChars[CHOOSE i \in 1..26 : UpperChars[i] = c]]

\* str.lower() on one character
LowerChar(c) == IF c \in UpperSet THEN LowerOf[c] ELSE c

\* str.lower()
ToLower(s) == [i \in 1..Len(s) |-> LowerChar(s[i])]

\* str.strip(): leading and trailing whitespace removed
RECURSIVE LStrip(_)
LStrip(s) == IF s = <<>> \/ Head(s) # " " THEN s ELSE LStrip(Tail(s))

RECURSIVE RStrip(_)
RStrip(s) == IF s = <<>> \/ s[Len(s)] # " " THEN s ELSE RStrip(SubSeq(s, 1, Len(s) - 1))

Strip(s) == RStrip(LStrip(s))

\* django.utils.html.strip_tags: a "<" that opens a tag (followed by a letter
\* or "/") is removed together with everything up to the next ">".
RECURSIVE StripTags(_)
StripTags(s) ==
    IF \A i \in 1..Len(s) : s[i] # "<" THEN s
    ELSE IF Head(s) = "<" /\ Len(s) >= 2 /\ s[2] \in Letters \cup {"/"}
            /\ \E j \in 2..Len(s) : s[j] = ">"
         THEN LET close == CHOOSE j \in 2..Len(s) :
                              /\ s[j] = ">"
                              /\ \A k \in 2..(j-1) : s[k] # ">"
              IN  StripTags(SubSeq(s, close + 1, Len(s)))
         ELSE <<Head(s)>> \o StripTags(Tail(s))

\* s[:n]
Truncate(s, n) == IF Len(s) > n THEN SubSeq(s, 1, n) ELSE s

\* the ORM's __icontains: case-insensitive substring test
IContains(hay, needle) ==
    LET h == ToLower(hay)
        n == ToLower(needle)
    IN  \E i \in 0..(Len(h) - Len(n)) : SubSeq(h, i + 1, i + Len(n)) = n

LocalChars == Letters \cup Digits \cup {".", "_", "%", "+", "-"}
DomainChars == Letters \cup Digits \cup {".", "-"}

\* ^[a-zA-Z0-9._%+-]+@[a-zA-Z0-9.-]+\.[a-zA-Z]{2,}$
EmailMatch(s) ==
    \E at \in 2..Len(s) :
        /\ s[at] = "@"
        /\ \A i \in 1..(at - 1) : s[i] \in LocalChars
        /\ \E dot \in (at + 2)..(Len(s) - 2) :
              /\ s[dot] = "."
              /\ \A i \in (at + 1)..(dot - 1) : s[i] \in DomainChars
              /\ \A i \in (dot + 1)..Len(s) : s[i] \in Letters

(***************************************************************************)
(* The messages the handlers report.                                       *)
(***************************************************************************)
E_NAME_SHORT == "Name must be at least 2 characters long."
E_NAME_LONG == "Name must be less than 100 characters."
E_EMAIL == "Please enter a valid email address."
E_MESSAGE_SHORT == "Message must be at least 10 characters long."
E_MESSAGE_LONG == "Message must be less than 2000 characters."
E_SUBJECT_SHORT == "Subject must be at least 5 characters long."
E_SUBJECT_LONG == "Subject must be less than 200 characters."
E_RATE == "Too many messages sent. Please wait before sending another message."
E_GENERIC == "Something went wrong. Please try again later."
E_SEND == "Sorry, there was an error sending your message. Please try emailing me directly."
E_REQUIRED == "All fields are required."

NoResp == [handler |-> "none"]

(***************************************************************************)
(* Contact form submissions: the raw POST fields of a request.             *)
(***************************************************************************)
T_AL == <<"A","l">>
T_A == <<"A">>
T_EMAIL_A == <<"a","@","b",".","i","o">>
T_EMAIL_A_RAW == <<" ","A","@","B",".","i","o"," ">>
T_EMAIL_C == <<"c","@","d",".","i","o">>
T_EMAIL_BAD == <<"a","@","b">>
T_HELLO == <<"H","e","l","l","o">>
T_BLANK_MARKUP == <<"<","b",">"," "," "," ","<","/","b",">">>
T_CONTACT_FROM == <<"C","o","n","t","a","c","t"," ","f","r","o","m"," ">>

ContactForm(n, e, s, m) == [name |-> n, email |-> e, subject |-> s, message |-> m]

ContactInputs ==
    [ valid_a     |-> ContactForm(T_AL, T_EMAIL_A, <<>>, Rep("m", 10)),
      valid_a_raw |-> ContactForm(T_AL, T_EMAIL_A_RAW, <<>>, Rep("m", 10)),
      valid_c     |-> ContactForm(T_AL, T_EMAIL_C, T_HELLO, Rep("m", 10)),
      short_name  |-> ContactForm(T_A, T_EMAIL_A, T_HELLO, Rep("m", 10)),
      bad_email   |-> ContactForm(T_AL, T_EMAIL_BAD, T_HELLO, Rep("m", 10)),
      short_msg   |-> ContactForm(T_AL, T_EMAIL_C, T_HELLO, Rep("m", 9)),
      all_bad     |-> ContactForm(<<>>, <<>>, Rep("s", 201), Rep("m", 2001)),
      blank_name   |-> ContactForm(T_BLANK_MARKUP, T_EMAIL_A, T_HELLO, Rep("m", 10)),
      blank_msg    |-> ContactForm(T_AL, T_EMAIL_A, T_HELLO, T_BLANK_MARKUP),
      long_subject |-> ContactForm(T_AL, T_EMAIL_C, Rep("s", 151), Rep("m", 10)) ]

\* the forms of the rate-limit runs
ContactInputIds ==
    {"valid_a", "valid_a_raw", "valid_c", "short_name", "bad_email", "short_msg",
     "all_bad"}

\* the forms of the field-bound runs
FieldInputIds ==
    {"valid_c", "short_name", "short_msg", "blank_name", "blank_msg", "long_subject"}

Addrs == {"10.0.0.1", "10.0.0.2"}

(***************************************************************************)
(* info.contact_view                                                       *)
(***************************************************************************)
\* lines 408-411: the fields as the handler sanitises them
\* a mutant of CleanFields: the email keeps its letter case
MutCleanFields(f) ==
    [ name    |-> StripTags(Strip(f.name)),
      email   |-> Strip(f.email),
      subject |-> StripTags(Strip(f.subject)),
      message |-> StripTags(Strip(f.message)) ]

CleanFields(f) ==
    [ name    |-> StripTags(Strip(f.name)),
      email   |-> ToLower(Strip(f.email)),
      subject |-> StripTags(Strip(f.subject)),
      message |-> StripTags(Strip(f.message)) ]

\* the sanitised fields of every form the model submits
Cleaned == [i \in DOMAIN ContactInputs |-> CleanFields(ContactInputs[i])]

\* a mutant of NameErrors: the lower bound off by one
MutNameErrors(name) ==
    IF Len(name) < NameMin - 1 THEN <<E_NAME_SHORT>>
    ELSE IF Len(name) > NameMax THEN <<E_NAME_LONG>>
    ELSE <<>>

NameErrors(name) ==
    IF Len(name) < NameMin THEN <<E_NAME_SHORT>>
    ELSE IF Len(name) > NameMax THEN <<E_NAME_LONG>>
    ELSE <<>>

EmailErrors(email) ==
    IF email = <<>> \/ ~EmailMatch(email) THEN <<E_EMAIL>> ELSE <<>>

MessageErrors(message) ==
    IF Len(message) < MessageMin THEN <<E_MESSAGE_SHORT>>
    ELSE IF Len(message) > MessageMax THEN <<E_MESSAGE_LONG>>
    ELSE <<>>

SubjectErrors(subject) ==
    IF subject # <<>> /\ Len(subject) > SubjectMax THEN <<E_SUBJECT_LONG>> ELSE <<>>

\* ContactMessage.objects.filter(email=email, created_at__gte=now - 1h).count()
RecentMessages(table, email, t) ==
    Cardinality({i \in DOMAIN table :
                    /\ table[i].email = email
                    /\ table[i].created_at >= t - Hour})

\* a mutant of RateErrors: the limit compared with > instead of >=
MutRateErrors(recent) == IF recent > RateLimit THEN <<E_RATE>> ELSE <<>>

RateErrors(recent) == IF recent >= RateLimit THEN <<E_RATE>> ELSE <<>>

\* a mutant of ContactErrors: the name rule is left out
MutContactErrors(c, recent) ==
    EmailErrors(c.email) \o MessageErrors(c.message)
        \o SubjectErrors(c.subject) \o RateErrors(recent)

\* lines 413-441: every rule is evaluated, the errors in the order of the code
ContactErrors(c, recent) ==
    NameErrors(c.name) \o EmailErrors(c.email) \o MessageErrors(c.message)
        \o SubjectErrors(c.subject) \o RateErrors(recent)

\* a mutant of NewContactMessage: is_read defaults to True
MutNewContactMessage(c, t) ==
    [ name       |-> c.name,
      email      |-> c.email,
      subject    |-> IF c.subject # <<>> THEN c.subject ELSE T_CONTACT_FROM \o c.name,
      message    |-> c.message,
      created_at |-> t,
      is_read    |-> TRUE,
      replied    |-> FALSE ]

\* ContactMessage.objects.create(...): the model's defaults fill the flags
NewContactMessage(c, t) ==
    [ name       |-> c.name,
      email      |-> c.email,
      subject    |-> IF c.subject # <<>> THEN c.subject ELSE T_CONTACT_FROM \o c.name,
      message    |-> c.message,
      created_at |-> t,
      is_read    |-> FALSE,
      replied    |-> FALSE ]

\* what a contact handler answers: the flash messages (one success message, or
\* the error messages in order), the status, and what became of send_mail
ContactResp(h, i, ok, errs, st, m) ==
    [handler |-> h, req |-> i, success |-> ok, errors |-> errs, status |-> st,
     mail |-> m]

\* A POST to info.contact_view, handled from the first line to the response.
\* dbOk: whether ContactMessage.objects.create succeeds or raises.
contact_view(i, dbOk) ==
    LET c == Cleaned[i]
        errors == ContactErrors(c, RecentMessages(contactMessages, c.email, now))
    IN  /\ resp = NoResp
        /\ \/ /\ errors # <<>>
              /\ resp' = ContactResp("contact_view", i, FALSE, errors, 200, "none")
              /\ UNCHANGED contactMessages
           \/ /\ errors = <<>>
              /\ dbOk
              /\ Len(contactMessages) < MaxMessages
              /\ contactMessages' = Append(contactMessages, NewContactMessage(c, now))
              /\ resp' = ContactResp("contact_view", i, TRUE, <<>>, 302, "none")
           \/ /\ errors = <<>>
              /\ ~dbOk
              /\ resp' = ContactResp("contact_view", i, FALSE, <<E_GENERIC>>, 200, "none")
              /\ UNCHANGED contactMessages
        /\ UNCHANGED <<now, cache, projects, techTags, workers, outbox>>

\* The response leaves the server; the next request can be taken.
Deliver ==
    /\ resp # NoResp
    /\ resp' = NoResp
    /\ UNCHANGED <<now, contactMessages, cache, projects, techTags, workers, outbox>>

\* Time passes between requests.
Tick ==
    /\ resp = NoResp
    /\ now < MaxTime
    /\ now' = now + 1
    /\ UNCHANGED <<contactMessages, cache, projects, techTags, workers, outbox, resp>>

(***************************************************************************)
(* info.contact_view under concurrent requests: the count is read in one   *)
(* step and the row is created (and the transaction committed) in a later  *)
(* one; transaction.atomic takes no lock on the rows it counted.           *)
(***************************************************************************)
WorkerIds == {"w1", "w2"}
IdleWorker == [pc |-> "idle"]

\* lines 406-446: sanitise, validate, count the recent messages
ContactBegin(w, i) ==
    LET c == Cleaned[i]
        errors == ContactErrors(c, RecentMessages(contactMessages, c.email, now))
    IN  /\ workers[w].pc = "idle"
        /\ \/ /\ errors # <<>>
              /\ workers' = [workers EXCEPT ![w] =
                                [pc |-> "done", success |-> FALSE, errors |-> errors]]
           \/ /\ errors = <<>>
              /\ workers' = [workers EXCEPT ![w] = [pc |-> "create", fields |-> c]]
        /\ UNCHANGED <<now, contactMessages, cache, projects, techTags, outbox, resp>>

\* lines 448-467: create the row, or report the generic failure
ContactCreate(w, dbOk) ==
    /\ workers[w].pc = "create"
    /\ \/ /\ dbOk
          /\ Len(contactMessages) < MaxMessages
          /\ contactMessages' =
                Append(contactMessages, NewContactMessage(workers[w].fields, now))
          /\ workers' = [workers EXCEPT ![w] =
                            [pc |-> "done", success |-> TRUE, errors |-> <<>>]]
       \/ /\ ~dbOk
          /\ workers' = [workers EXCEPT ![w] =
                            [pc |-> "done", success |-> FALSE, errors |-> <<E_GENERIC>>]]
          /\ UNCHANGED contactMessages
    /\ UNCHANGED <<now, cache, projects, techTags, outbox, resp>>

ContactReturn(w) ==
    /\ workers[w].pc = "done"
    /\ workers' = [workers EXCEPT ![w] = IdleWorker]
    /\ UNCHANGED <<now, contactMessages, cache, projects, techTags, outbox, resp>>

(***************************************************************************)
(* Portfolio.views.ContactView.post and contact_view_function              *)
(***************************************************************************)
PostSubjectErrors(subject) ==
    IF Len(subject) < PostSubjectMin THEN <<E_SUBJECT_SHORT>>
    ELSE IF Len(subject) > SubjectMax THEN <<E_SUBJECT_LONG>>
    ELSE <<>>

\* cache.get(cache_key, 0)
CacheGet(addr) == IF now < cache[addr].expires THEN cache[addr].value ELSE 0

\* lines 476-504
PostErrors(c, recent) ==
    NameErrors(c.name) \o EmailErrors(c.email) \o PostSubjectErrors(c.subject)
        \o MessageErrors(c.message) \o RateErrors(recent)

\* A POST to ContactView.post from address addr.
\* mailOk: whether send_mail returns or raises.
ContactView_post(i, addr, mailOk) ==
    LET c == Cleaned[i]
        recent_submissions == CacheGet(addr)
        errors == PostErrors(c, recent_submissions)
    IN  /\ resp = NoResp
        /\ \/ /\ errors # <<>>
              /\ resp' = ContactResp("ContactView.post", i, FALSE, errors, 200, "none")
              /\ UNCHANGED <<cache, outbox>>
           \/ /\ errors = <<>>
              /\ mailOk
              /\ Len(outbox) < MaxMails
              /\ outbox' = Append(outbox, [addr |-> addr, at |-> now])
              /\ cache' = [cache EXCEPT ![addr] =
                              [value |-> recent_submissions + 1,
                               expires |-> now + CacheTimeout]]
              /\ resp' = ContactResp("ContactView.post", i, TRUE, <<>>, 200, "sent")
           \/ /\ errors = <<>>
              /\ ~mailOk
              /\ resp' = ContactResp("ContactView.post", i, FALSE, <<E_SEND>>, 200, "raised")
              /\ UNCHANGED <<cache, outbox>>
        /\ UNCHANGED <<now, contactMessages, projects, techTags, workers>>

\* A POST to contact_view_function.
contact_view_function(i) ==
    LET c == Cleaned[i]
    IN  /\ resp = NoResp
        /\ \/ /\ <<>> \in {c.name, c.email, c.subject, c.message}
              /\ resp' = ContactResp("contact_view_function", i, FALSE, <<E_REQUIRED>>, 200, "none")
           \/ /\ <<>> \notin {c.name, c.email, c.subject, c.message}
              /\ EmailMatch(c.email)
              /\ resp' = ContactResp("contact_view_function", i, TRUE, <<>>, 200, "none")
           \/ /\ <<>> \notin {c.name, c.email, c.subject, c.message}
              /\ ~EmailMatch(c.email)
              /\ resp' = ContactResp("contact_view_function", i, FALSE, <<E_EMAIL>>, 200, "none")
        /\ UNCHANGED <<now, contactMessages, cache, projects, techTags, workers, outbox>>

(***************************************************************************)
(* The project store and info.projects_view                                *)
(***************************************************************************)
TAG_GO == <<"G","o">>
TAG_GOLANG == <<"G","o","l","a","n","g">>

\* the projects the administrator may create: one without tags whose three
\* text fields differ, one whose text says nothing and that carries two tags
ProjectKinds ==
    { [title |-> <<"G","o">>, short_description |-> <<"r","s">>,
       description |-> <<"p","y">>, tech_stack |-> {}],
      [title |-> <<"x">>, short_description |-> <<"y">>,
       description |-> <<"z">>, tech_stack |-> {TAG_GO, TAG_GOLANG}] }

\* the administrator saves a new project (its tags are created first), in a
\* store that holds fewer than limit projects
AdminSaveProject(kind, limit) ==
    /\ resp = NoResp
    /\ Len(projects) < limit
    /\ projects' = Append(projects,
          [ id |-> Len(projects) + 1,
            title |-> kind.title,
            short_description |-> kind.short_description,
            description |-> kind.description,
            tech_stack |-> kind.tech_stack,
            created_at |-> now ])
    /\ techTags' = techTags \cup kind.tech_stack
    /\ UNCHANGED <<now, contactMessages, cache, workers, outbox, resp>>

AdminAddProject(kind) == AdminSaveProject(kind, MaxProjects)

TAG_RUST == <<"R","u","s","t">>
TAG_PYTHON == <<"P","y","t","h","o","n">>

\* the projects of the tag-filter runs: the untagged one, one tagged exactly
\* Go and Rust, one tagged Python
TagKinds ==
    { [title |-> <<"G","o">>, short_description |-> <<"r","s">>,
       description |-> <<"p","y">>, tech_stack |-> {}],
      [title |-> <<"x">>, short_description |-> <<"y">>,
       description |-> <<"z">>, tech_stack |-> {TAG_GO, TAG_RUST}],
      [title |-> <<"x">>, short_description |-> <<"y">>,
       description |-> <<"z">>, tech_stack |-> {TAG_PYTHON}] }

\* the projects of the ordering runs, saved at different times
OrderKinds ==
    { [title |-> <<"x">>, short_description |-> <<"y">>,
       description |-> <<"z">>, tech_stack |-> {TAG_GO, TAG_GOLANG}] }

\* the query-string values the model sends
SearchInputs ==
    [ none |-> <<>>,
      go   |-> <<" ","G","O"," ">>,
      rs   |-> <<"r","s">>,
      py   |-> <<"<","i",">","p","y","<","/","i",">">> ]
TechInputs ==
    [ none   |-> <<>>,
      go     |-> <<"g","o">>,
      rust   |-> <<"r","u","s","t">>,
      python |-> <<"p","y","t","h","o","n">> ]
PageInputs ==
    [ abc    |-> <<"a","b","c">>,
      zero   |-> <<"0">>,
      minus1 |-> <<"-","1">>,
      two    |-> <<"2">>,
      big    |-> <<"9","9","9","9">> ]

DigitSeq == <<"0","1","2","3","4","5","6","7","8","9">>
DigitValue(c) == (CHOOSE k \in 1..10 : DigitSeq[k] = c) - 1

RECURSIVE DigitsValue(_)
DigitsValue(d) ==
    IF d = <<>> THEN 0
    ELSE 10 * DigitsValue(SubSeq(d, 1, Len(d) - 1)) + DigitValue(d[Len(d)])

\* int(page_number): surrounding whitespace, an optional sign, then digits;
\* anything else raises ValueError
ParseInt(s) ==
    LET t == Strip(s)
        signed == t # <<>> /\ Head(t) \in {"-", "+"}
        body == IF signed THEN Tail(t) ELSE t
        ok == body # <<>> /\ \A k \in 1..Len(body) : body[k] \in Digits
    IN  [ ok |-> ok,
          value |-> IF ~ok THEN 0
                    ELSE IF signed /\ Head(t) = "-" THEN 0 - DigitsValue(body)
                    ELSE DigitsValue(body) ]

\* lines 55-64: strip, then strip_tags and truncate when non-empty
Sanitize(raw, max) ==
    LET t == Strip(raw)
    IN  IF t # <<>> THEN Truncate(StripTags(t), max) ELSE t

\* a mutant of SearchMatches: the title is not searched
MutSearchMatches(p, q) ==
    \/ IContains(p.short_description, q)
    \/ IContains(p.description, q)
    \/ \E t \in p.tech_stack : IContains(t, q)

\* lines 71-76: the Q(...) | Q(...) predicate of the search filter
SearchMatches(p, q) ==
    \/ IContains(p.title, q)
    \/ IContains(p.short_description, q)
    \/ IContains(p.description, q)
    \/ \E t \in p.tech_stack : IContains(t, q)

\* line 79: TechTag.objects.filter(name__icontains=tech_filter).exists()
\* a mutant of TechApplies: the tag filter is applied whenever tech is given
MutTechApplies(tech) == tech # <<>>

TechApplies(tech) == tech # <<>> /\ \E t \in techTags : IContains(t, tech)

\* a mutant of RowsOf: one and the same tag has to satisfy search and tech
MutRowsOf(p, search, tech) ==
    LET searched == search # <<>>
        tagRows == IF TechApplies(tech)
                   THEN Cardinality({t \in p.tech_stack : IContains(t, tech)})
                   ELSE 1
    IN  IF ~searched THEN tagRows
        ELSE IF TechApplies(tech)
             THEN (IF \E t \in p.tech_stack :
                         IContains(t, search) /\ IContains(t, tech)
                   THEN 1 ELSE 0)
             ELSE (IF SearchMatches(p, search) THEN 1 ELSE 0)

\* The rows the query yields for project p.  The search filter keeps the
\* project and distinct() collapses its join rows; the tech filter joins the
\* tag table, one row per tag that contains tech.
RowsOf(p, search, tech) ==
    LET searched == search # <<>>
        kept == ~searched \/ SearchMatches(p, search)
        tagRows == IF TechApplies(tech)
                   THEN Cardinality({t \in p.tech_stack : IContains(t, tech)})
                   ELSE 1
    IN  IF ~kept THEN 0
        ELSE IF searched THEN (IF tagRows > 0 THEN 1 ELSE 0)
        ELSE tagRows

\* a mutant of OrderedProject: equal creation times are ordered by rising id
MutOrderedProject(k) ==
    CHOOSE i \in 1..Len(projects) :
        Cardinality({j \in 1..Len(projects) :
            \/ projects[j].created_at > projects[i].created_at
            \/ /\ projects[j].created_at = projects[i].created_at
               /\ projects[j].id < projects[i].id}) = k - 1

\* line 85: order_by('-created_at', '-id'): the k-th project of the order
OrderedProject(k) ==
    CHOOSE i \in 1..Len(projects) :
        Cardinality({j \in 1..Len(projects) :
            \/ projects[j].created_at > projects[i].created_at
            \/ /\ projects[j].created_at = projects[i].created_at
               /\ projects[j].id > projects[i].id}) = k - 1

\* the ordered rows of the query, as project ids
RECURSIVE QueryRows(_, _, _)
QueryRows(k, search, tech) ==
    IF k > Len(projects) THEN <<>>
    ELSE LET i == OrderedProject(k)
         IN  Rep(projects[i].id, RowsOf(projects[i], search, tech))
                \o QueryRows(k + 1, search, tech)

\* a mutant of NumPages: a full last page opens another one
MutNumPages(count) == count \div PageSize + 1

\* Paginator.num_pages (orphans = 0, allow_empty_first_page = True)
NumPages(count) ==
    LET hits == IF count > 1 THEN count ELSE 1
    IN  (hits + PageSize - 1) \div PageSize

\* a mutant of GetPageNumber: a number below 1 is served as page 1
MutGetPageNumber(number, count) ==
    IF number < 1 THEN 1
    ELSE IF number > NumPages(count) THEN NumPages(count)
    ELSE number

\* Paginator.get_page: a number below 1 or beyond the last page is EmptyPage
\* inside validate_number, which get_page answers with the last page
GetPageNumber(number, count) ==
    IF number < 1 THEN NumPages(count)
    ELSE IF number > NumPages(count) THEN NumPages(count)
    ELSE number

\* Paginator.page(number).object_list
PageRows(rows, number) ==
    LET bottom == (number - 1) * PageSize
        top == IF bottom + PageSize >= Len(rows) THEN Len(rows) ELSE bottom + PageSize
    IN  SubSeq(rows, bottom + 1, top)

\* the query strings as lines 55-64 leave them
SearchQueries == [s \in DOMAIN SearchInputs |-> Sanitize(SearchInputs[s], SearchMax)]
TechFilters == [t \in DOMAIN TechInputs |-> Sanitize(TechInputs[t], TechMax)]
PageNumbers == [pg \in DOMAIN PageInputs |-> ParseInt(PageInputs[pg])]

\* lines 90-99: int(page_number) and get_page; a ValueError is served as page 1
ServedPage(pg, count) ==
    IF PageNumbers[pg].ok THEN GetPageNumber(PageNumbers[pg].value, count)
    ELSE GetPageNumber(1, count)

\* A GET of the project listing with query string (search, tech, page).
\* dbOk: whether the queries run or raise.
projects_view(s, t, pg, dbOk) ==
    /\ resp = NoResp
    /\ \/ /\ dbOk
          /\ \E rows \in {QueryRows(1, SearchQueries[s], TechFilters[t])} :
             \E number \in {ServedPage(pg, Len(rows))} :
                resp' = [ handler |-> "projects_view",
                          status |-> 200,
                          req |-> [search |-> s, tech |-> t, page |-> pg],
                          search_query |-> SearchQueries[s],
                          tech_filter |-> TechFilters[t],
                          total_projects |-> Len(rows),
                          object_list |-> rows,
                          projects |-> PageRows(rows, number),
                          current_page |-> number,
                          total_pages |-> NumPages(Len(rows)) ]
       \/ /\ ~dbOk
          /\ resp' = [ handler |-> "projects_view",
                       status |-> 500,
                       req |-> [search |-> s, tech |-> t, page |-> pg],
                       search_query |-> <<>>,
                       tech_filter |-> <<>>,
                       total_projects |-> 0,
                       projects |-> <<>> ]
    /\ UNCHANGED <<now, contactMessages, cache, projects, techTags, workers, outbox>>

\* ---- project detail (info/views.py project_detail_view) ----

\* the projects of the detail runs: a title with a slug, a title made of
\* punctuation only, and an untagged project
DetailKinds ==
    { [title |-> <<"M","y"," ","A","p","p">>, short_description |-> <<"y">>,
       description |-> <<"z">>, tech_stack |-> {TAG_GO, TAG_RUST}],
      [title |-> <<"!","!">>, short_description |-> <<"y">>,
       description |-> <<"z">>, tech_stack |-> {TAG_GO}],
      [title |-> <<"x">>, short_description |-> <<"y">>,
       description |-> <<"z">>, tech_stack |-> {}] }

\* the slug part of the requested URL; none is the URL without a slug
SlugInputs ==
    [ none  |-> <<>>,
      myapp |-> <<"m","y","-","a","p","p">>,
      x     |-> <<"x">> ]

SlugSeparators == {"-", " "}
SlugKept == {LowerChars[i] : i \in 1..26} \cup Digits \cup {"_"} \cup SlugSeparators

RECURSIVE DropSeparators(_)
DropSeparators(s) ==
    IF s = <<>> \/ Head(s) \notin SlugSeparators THEN s ELSE DropSeparators(Tail(s))

\* re.sub(r'[-\s]+', '-', value)
RECURSIVE CollapseSeparators(_)
CollapseSeparators(s) ==
    IF s = <<>> THEN <<>>
    ELSE IF Head(s) \in SlugSeparators
         THEN <<"-">> \o CollapseSeparators(DropSeparators(s))
         ELSE <<Head(s)>> \o CollapseSeparators(Tail(s))

\* str.strip('-_')
RECURSIVE StripDashes(_)
StripDashes(s) ==
    IF s = <<>> THEN s
    ELSE IF Head(s) \in {"-", "_"} THEN StripDashes(Tail(s))
    ELSE IF s[Len(s)] \in {"-", "_"} THEN StripDashes(SubSeq(s, 1, Len(s) - 1))
    ELSE s

\* django.utils.text.slugify on ASCII text: lower case, every character that
\* is not a word character, whitespace or "-" removed, runs of whitespace and
\* "-" turned into one "-", leading and trailing "-" and "_" removed
Slugify(title) ==
    LET Kept(c) == c \in SlugKept
    IN  StripDashes(CollapseSeparators(SelectSeq(ToLower(title), Kept)))

\* a mutant of RelatedCandidates: the project itself is not excluded
MutRelatedCandidates(p) ==
    {i \in 1..Len(projects) : projects[i].tech_stack \cap p.tech_stack # {}}

\* lines 205-208: filter(tech_stack__in=...).exclude(id=project.id).distinct()
RelatedCandidates(p) ==
    {i \in 1..Len(projects) :
        /\ projects[i].tech_stack \cap p.tech_stack # {}
        /\ projects[i].id # p.id}

\* [:4] under Meta ordering -created_at: the newest candidates, the order among
\* projects created at the same time being the database's choice
RelatedLists(p) ==
    LET cands == RelatedCandidates(p)
        n == IF Cardinality(cands) < RelatedLimit THEN Cardinality(cands) ELSE RelatedLimit
        picks == {f \in [1..n -> cands] :
                    /\ \A a, b \in 1..n : a < b =>
                          /\ f[a] # f[b]
                          /\ projects[f[a]].created_at >= projects[f[b]].created_at
                    /\ \A y \in cands : (\A k \in 1..n : f[k] # y) =>
                          \A k \in 1..n :
                              projects[y].created_at <= projects[f[k]].created_at}
    IN  {[k \in 1..n |-> projects[f[k]].id] : f \in picks}

\* a mutant of FailureStatus: only a missing project is answered with 404
MutFailureStatus(caught) == IF caught = "Http404" THEN 404 ELSE 500

\* lines 255-257: whatever was caught, Http404 is raised
FailureStatus(caught) == 404

\* caught: the exception the except clause of line 255 caught and printed
DetailResp(pid, sl, st, caught, loc, proj, rel) ==
    [ handler |-> "project_detail_view",
      status |-> st,
      caught |-> caught,
      req |-> [project_id |-> pid, slug |-> sl],
      location |-> loc,
      project |-> proj,
      related_projects |-> rel ]

NoLocation == [project_id |-> 0, slug |-> <<>>]

\* lines 178-257: the answers the handler can give to a request for project
\* pid under slug sl.
\* ok = FALSE: something raises while the answer is assembled or rendered.
DetailAnswers(pid, sl, ok) ==
    IF pid \notin 1..Len(projects)
    THEN {DetailResp(pid, sl, FailureStatus("Http404"), "Http404", NoLocation, 0, <<>>)}
    ELSE IF ~ok
    THEN {DetailResp(pid, sl, FailureStatus("Exception"), "Exception", NoLocation, 0, <<>>)}
    ELSE LET correct_slug == Slugify(projects[pid].title)
         IN  IF SlugInputs[sl] = <<>> \/ SlugInputs[sl] # correct_slug
             THEN IF correct_slug = <<>>
                  THEN {DetailResp(pid, sl, FailureStatus("NoReverseMatch"),
                                   "NoReverseMatch", NoLocation, 0, <<>>)}
                  ELSE {DetailResp(pid, sl, 301, "none",
                                   [project_id |-> pid, slug |-> correct_slug], 0, <<>>)}
             ELSE {DetailResp(pid, sl, 200, "none", NoLocation, projects[pid].id, rel) :
                      rel \in RelatedLists(projects[pid])}

\* GET projects/<int:project_id>/ and projects/<int:project_id>/<slug:slug>/.
project_detail_view(pid, sl, ok) ==
    /\ resp = NoResp
    /\ resp' \in DetailAnswers(pid, sl, ok)
    /\ UNCHANGED <<now, contactMessages, cache, projects, techTags, workers, outbox>>

LegacyResp(pid, st, caught, loc) ==
    [ handler |-> "project_legacy_redirect",
      req |-> [project_id |-> pid],
      status |-> st,
      caught |-> caught,
      location |-> loc ]

\* GET project/<project_id>/ (info/views.py 629-642): the bare except turns
\* whatever is raised into Http404.
project_legacy_redirect(pid, ok) ==
    /\ resp = NoResp
    /\ \/ /\ pid \notin 1..Len(projects)
          /\ resp' = LegacyResp(pid, 404, "Http404", NoLocation)
       \/ /\ pid \in 1..Len(projects)
          /\ ~ok
          /\ resp' = LegacyResp(pid, 404, "Exception", NoLocation)
       \/ /\ pid \in 1..Len(projects)
          /\ ok
          /\ \E slug \in {Slugify(projects[pid].title)} :
                \/ /\ slug = <<>>
                   /\ resp' = LegacyResp(pid, 404, "NoReverseMatch", NoLocation)
                \/ /\ slug # <<>>
                   /\ resp' = LegacyResp(pid, 301, "none",
                                         [project_id |-> pid, slug |-> slug])
    /\ UNCHANGED <<now, contactMessages, cache, projects, techTags, workers, outbox>>

\* The client follows a 301: it requests the URL of the Location header, which
\* urls.py line 23 routes to project_detail_view.  The answer is kept together
\* with the redirect that led to it.
FollowRedirect(ok) ==
    /\ resp.handler \in {"project_detail_view", "project_legacy_redirect"}
    /\ resp.status = 301
    /\ \E sl \in DOMAIN SlugInputs :
          /\ SlugInputs[sl] = resp.location.slug
          /\ \E answer \in DetailAnswers(resp.location.project_id, sl, ok) :
                resp' = [handler |-> "client", first |-> resp, answer |-> answer]
    /\ UNCHANGED <<now, contactMessages, cache, projects, techTags, workers, outbox>>

\* ---- sitemap (info/views.py projects_sitemap) ----

\* Project.updated_at (auto_now): set by every save; no handler of the site
\* saves a project again, so it is the time of creation
UpdatedAt(p) == p.created_at

\* line 553: the orders order_by('-updated_at') can give; the order among
\* projects saved at the same time is the database's choice
ByUpdatedAt ==
    {f \in [1..Len(projects) -> 1..Len(projects)] :
        \A a, b \in 1..Len(projects) : a < b =>
            /\ f[a] # f[b]
            /\ UpdatedAt(projects[f[a]]) >= UpdatedAt(projects[f[b]])}

\* lines 560-563: the entry of the projects index page
IndexEntry == [loc |-> "info:projects", changefreq |-> "weekly", priority |-> "0.9"]

\* lines 567-573: the entry of one project
ProjectEntry(p) ==
    [ loc |-> [project_id |-> p.id, slug |-> Slugify(p.title)],
      lastmod |-> UpdatedAt(p),
      changefreq |-> "monthly",
      priority |-> "0.8" ]

SitemapResp(st, caught, index, entries) ==
    [ handler |-> "projects_sitemap",
      status |-> st,
      caught |-> caught,
      index |-> index,
      entries |-> entries ]

\* GET sitemap/projects/.
\* ok = FALSE: the database or the XML writer raises.
projects_sitemap(ok) ==
    /\ resp = NoResp
    /\ \/ /\ ~ok
          /\ resp' = SitemapResp(500, "Exception", <<>>, <<>>)
       \/ /\ ok
          /\ \E i \in 1..Len(projects) : Slugify(projects[i].title) = <<>>
          /\ resp' = SitemapResp(500, "NoReverseMatch", <<>>, <<>>)
       \/ /\ ok
          /\ \A i \in 1..Len(projects) : Slugify(projects[i].title) # <<>>
          /\ \E f \in ByUpdatedAt :
                resp' = SitemapResp(200, "none", <<IndexEntry>>,
                            [k \in 1..Len(projects) |-> ProjectEntry(projects[f[k]])])
    /\ UNCHANGED <<now, contactMessages, cache, projects, techTags, workers, outbox>>

\* ---- feed (info/views.py ProjectsFeed) ----

\* a mutant of FeedCuts: the slice keeps the oldest projects
MutFeedCuts ==
    LET n == IF Len(projects) < FeedLimit THEN Len(projects) ELSE FeedLimit
    IN  {S \in SUBSET (1..Len(projects)) :
            /\ Cardinality(S) = n
            /\ \A x \in S, y \in (1..Len(projects)) \ S :
                  projects[y].created_at >= projects[x].created_at}

\* line 611: order_by('-created_at')[:10]: the projects the slice can keep;
\* which of the projects created at the same time fall outside is the
\* database's choice
FeedCuts ==
    LET n == IF Len(projects) < FeedLimit THEN Len(projects) ELSE FeedLimit
    IN  {S \in SUBSET (1..Len(projects)) :
            /\ Cardinality(S) = n
            /\ \A x \in S, y \in (1..Len(projects)) \ S :
                  projects[y].created_at <= projects[x].created_at}

\* the kept projects newest first; projects created at the same time follow
\* each other by rising id (up) or by falling id, as the database returns them
FeedOrder(S, up) ==
    [k \in 1..Cardinality(S) |->
        projects[CHOOSE i \in S :
            Cardinality({j \in S :
                \/ projects[j].created_at > projects[i].created_at
                \/ /\ projects[j].created_at = projects[i].created_at
                   /\ IF up THEN j < i ELSE j > i}) = k - 1].id]

\* ProjectsFeed.items(), called when projects/feed/ is requested
ProjectsFeed_items ==
    /\ resp = NoResp
    /\ \E S \in FeedCuts, up \in BOOLEAN :
          resp' = [handler |-> "ProjectsFeed.items", items |-> FeedOrder(S, up)]
    /\ UNCHANGED <<now, contactMessages, cache, projects, techTags, workers, outbox>>

\* ---- AJAX endpoints (info/views.py project_detail_ajax, filter_projects_ajax) ----

TAG_GO_UPPER == <<"G","O">>

\* the projects of the AJAX runs: an untagged one found by the search "go", one
\* tagged Go and GO (tag names are unique up to case only where the database
\* compares them so), one tagged Golang
AjaxKinds ==
    { [title |-> <<"G","o">>, short_description |-> <<"r","s">>,
       description |-> <<"p","y">>, tech_stack |-> {}],
      [title |-> <<"x">>, short_description |-> <<"y">>,
       description |-> <<"z">>, tech_stack |-> {TAG_GO, TAG_GO_UPPER}],
      [title |-> <<"x">>, short_description |-> <<"y">>,
       description |-> <<"z">>, tech_stack |-> {TAG_GOLANG}] }

\* lines 296-301: get_object_or_404 raises Http404, which is no
\* Project.DoesNotExist, so every exception reaches the last except clause
AjaxStatus(caught) == 500

AjaxDetailResp(pid, xhr, st, caught, title) ==
    [ handler |-> "project_detail_ajax",
      req |-> [project_id |-> pid, xhr |-> xhr],
      status |-> st,
      caught |-> caught,
      title |-> title ]

\* GET api/projects/<int:project_id>/.
\* xhr: the request carries X-Requested-With: XMLHttpRequest.
\* ok = FALSE: something raises while the data is collected.
project_detail_ajax(pid, xhr, ok) ==
    /\ resp = NoResp
    /\ \/ /\ ~xhr
          /\ resp' = AjaxDetailResp(pid, xhr, 400, "none", <<>>)
       \/ /\ xhr
          /\ pid \notin 1..Len(projects)
          /\ resp' = AjaxDetailResp(pid, xhr, AjaxStatus("Http404"), "Http404", <<>>)
       \/ /\ xhr
          /\ pid \in 1..Len(projects)
          /\ ~ok
          /\ resp' = AjaxDetailResp(pid, xhr, AjaxStatus("Exception"), "Exception", <<>>)
       \/ /\ xhr
          /\ pid \in 1..Len(projects)
          /\ ok
          /\ resp' = AjaxDetailResp(pid, xhr, 200, "none", projects[pid].title)
    /\ UNCHANGED <<now, contactMessages, cache, projects, techTags, workers, outbox>>

\* lines 321-325: the search of the filter endpoint (the description is not
\* searched)
AjaxSearchMatches(p, q) ==
    \/ IContains(p.title, q)
    \/ IContains(p.short_description, q)
    \/ \E t \in p.tech_stack : IContains(t, q)

\* lines 320-329: the rows the query yields for project p; distinct() comes
\* with the search only, and tech_stack__name__iexact joins the tag table, one
\* row per tag whose name equals tech up to case
AjaxRowsOf(p, search, tech) ==
    LET searched == search # <<>>
        kept == ~searched \/ AjaxSearchMatches(p, search)
        tagRows == IF tech # <<>>
                   THEN Cardinality({t \in p.tech_stack : ToLower(t) = ToLower(tech)})
                   ELSE 1
    IN  IF ~kept THEN 0
        ELSE IF searched THEN (IF tagRows > 0 THEN 1 ELSE 0)
        ELSE tagRows

\* line 317: the orders order_by('-created_at') can give
ByCreatedAt ==
    {f \in [1..Len(projects) -> 1..Len(projects)] :
        \A a, b \in 1..Len(projects) : a < b =>
            /\ f[a] # f[b]
            /\ projects[f[a]].created_at >= projects[f[b]].created_at}

\* the rows of the filter query in the order f, as project ids
RECURSIVE AjaxRows(_, _, _, _)
AjaxRows(f, k, search, tech) ==
    IF k > Len(projects) THEN <<>>
    ELSE Rep(projects[f[k]].id, AjaxRowsOf(projects[f[k]], search, tech))
            \o AjaxRows(f, k + 1, search, tech)

FilterResp(s, t, xhr, st, success, rows) ==
    [ handler |-> "filter_projects_ajax",
      req |-> [search |-> s, tech |-> t, xhr |-> xhr],
      status |-> st,
      success |-> success,
      projects |-> rows,
      count |-> Len(rows) ]

\* GET api/projects/filter/?tech=..&search=..
\* ok = FALSE: the database raises.
filter_projects_ajax(s, t, xhr, ok) ==
    /\ resp = NoResp
    /\ \/ /\ ~xhr
          /\ resp' = FilterResp(s, t, xhr, 400, FALSE, <<>>)
       \/ /\ xhr
          /\ ~ok
          /\ resp' = FilterResp(s, t, xhr, 500, FALSE, <<>>)
       \/ /\ xhr
          /\ ok
          /\ \E f \in ByCreatedAt :
                \E rows \in {AjaxRows(f, 1, SearchQueries[s], TechFilters[t])} :
                    resp' = FilterResp(s, t, xhr, 200, TRUE, Truncate(rows, FilterLimit))
    /\ UNCHANGED <<now, contactMessages, cache, projects, techTags, workers, outbox>>

\* ---- admin (info/admin.py ContactMessageAdmin) ----

\* a mutant of SaveModel: the submitted value of is_read is saved
MutSaveModel(obj, form, change) ==
    [obj EXCEPT !.is_read = form.is_read, !.replied = form.replied]

\* lines 80-83 after the form has been applied to obj: form.changed_data holds
\* is_read when the submitted value differs from the stored one
SaveModel(obj, form, change) ==
    LET changed_is_read == form.is_read # obj.is_read
    IN  [obj EXCEPT
            !.is_read = IF change /\ changed_is_read THEN TRUE ELSE form.is_read,
            !.replied = form.replied]

\* The administrator submits the edit form of stored message k with the two
\* status boxes set as given.
AdminEditMessage(k, is_read, replied) ==
    /\ resp = NoResp
    /\ k \in 1..Len(contactMessages)
    /\ contactMessages' =
          [contactMessages EXCEPT
              ![k] = SaveModel(@, [is_read |-> is_read, replied |-> replied], TRUE)]
    /\ resp' = [ handler |-> "ContactMessageAdmin.save_model",
                 req |-> [id |-> k, is_read |-> is_read, replied |-> replied] ]
    /\ UNCHANGED <<now, cache, projects, techTags, workers, outbox>>

Init ==
    /\ now = 0
    /\ contactMessages = <<>>
    /\ cache = [a \in Addrs |-> [value |-> 0, expires |-> 0]]
    /\ projects = <<>>
    /\ techTags = {}
    /\ workers = [w \in WorkerIds |-> IdleWorker]
    /\ outbox = <<>>
    /\ resp = NoResp

Next ==
    \/ \E i \in ContactInputIds, dbOk \in BOOLEAN : contact_view(i, dbOk)
    \/ Deliver
    \/ Tick

Spec == Init /\ [][Next]_vars

NextConc ==
    \/ \E w \in WorkerIds, i \in ContactInputIds : ContactBegin(w, i)
    \/ \E w \in WorkerIds, dbOk \in BOOLEAN : ContactCreate(w, dbOk)
    \/ \E w \in WorkerIds : ContactReturn(w)
    \/ Tick

SpecConc == Init /\ [][NextConc]_vars

NextPost ==
    \/ \E i \in ContactInputIds, addr \in Addrs, mailOk \in BOOLEAN :
          ContactView_post(i, addr, mailOk)
    \/ \E i \in ContactInputIds : contact_view_function(i)
    \/ Deliver
    \/ Tick

SpecPost == Init /\ [][NextPost]_vars

NextProjects ==
    \/ \E kind \in ProjectKinds : AdminAddProject(kind)
    \/ \E s \in DOMAIN SearchInputs, t \in DOMAIN TechInputs,
          pg \in DOMAIN PageInputs, dbOk \in BOOLEAN : projects_view(s, t, pg, dbOk)
    \/ Deliver

SpecProjects == Init /\ [][NextProjects]_vars

\* the listing over a small store whose projects carry the tags Go, Rust, Python
NextTags ==
    \/ \E kind \in TagKinds : AdminSaveProject(kind, MaxTagProjects)
    \/ \E s \in DOMAIN SearchInputs, t \in DOMAIN TechInputs,
          pg \in {"abc", "two"}, dbOk \in BOOLEAN : projects_view(s, t, pg, dbOk)
    \/ Deliver

SpecTags == Init /\ [][NextTags]_vars

\* the sitemap over a small store of projects with and without a slug
NextSitemap ==
    \/ \E kind \in DetailKinds : AdminSaveProject(kind, MaxSitemapProjects)
    \/ \E ok \in BOOLEAN : projects_sitemap(ok)
    \/ Deliver

SpecSitemap == Init /\ [][NextSitemap]_vars

\* the feed over a store that outgrows the feed
NextFeed ==
    \/ \E kind \in OrderKinds : AdminSaveProject(kind, MaxFeedProjects)
    \/ Tick
    \/ ProjectsFeed_items
    \/ Deliver

SpecFeed == Init /\ [][NextFeed]_vars

\* the AJAX endpoints over a small store
NextAjax ==
    \/ \E kind \in AjaxKinds : AdminSaveProject(kind, MaxAjaxProjects)
    \/ \E pid \in 1..(MaxAjaxProjects + 1), xhr \in BOOLEAN, ok \in BOOLEAN :
          project_detail_ajax(pid, xhr, ok)
    \/ \E s \in {"none", "go"}, t \in {"none", "go", "python"},
          xhr \in BOOLEAN, ok \in BOOLEAN : filter_projects_ajax(s, t, xhr, ok)
    \/ Deliver

SpecAjax == Init /\ [][NextAjax]_vars

\* a client that asks for detail pages and follows the redirects
NextRedirect ==
    \/ \E kind \in DetailKinds : AdminSaveProject(kind, MaxRedirectProjects)
    \/ \E pid \in 1..(MaxRedirectProjects + 1), sl \in DOMAIN SlugInputs, ok \in BOOLEAN :
          project_detail_view(pid, sl, ok)
    \/ \E pid \in 1..(MaxRedirectProjects + 1), ok \in BOOLEAN :
          project_legacy_redirect(pid, ok)
    \/ \E ok \in BOOLEAN : FollowRedirect(ok)
    \/ Deliver

SpecRedirect == Init /\ [][NextRedirect]_vars

\* the whole site: every public handler next to the administrator
NextSite ==
    \/ \E i \in {"valid_a", "short_name"}, dbOk \in BOOLEAN : contact_view(i, dbOk)
    \/ \E i \in {"valid_a", "short_name"}, mailOk \in BOOLEAN :
          ContactView_post(i, "10.0.0.1", mailOk)
    \/ \E i \in {"valid_a", "short_name"} : contact_view_function(i)
    \/ \E kind \in OrderKinds : AdminSaveProject(kind, MaxSiteProjects)
    \/ \E t \in {"none", "go"}, dbOk \in BOOLEAN : projects_view("none", t, "abc", dbOk)
    \/ \E pid \in 1..(MaxSiteProjects + 1), sl \in {"none", "x"}, ok \in BOOLEAN :
          project_detail_view(pid, sl, ok)
    \/ \E pid \in 1..(MaxSiteProjects + 1), ok \in BOOLEAN : project_legacy_redirect(pid, ok)
    \/ \E pid \in 1..(MaxSiteProjects + 1), xhr \in BOOLEAN, ok \in BOOLEAN :
          project_detail_ajax(pid, xhr, ok)
    \/ \E t \in {"none", "go"}, xhr \in BOOLEAN, ok \in BOOLEAN :
          filter_projects_ajax("none", t, xhr, ok)
    \/ \E ok \in BOOLEAN : projects_sitemap(ok)
    \/ ProjectsFeed_items
    \/ \E k \in 1..MaxMessages, is_read \in BOOLEAN, replied \in BOOLEAN :
          AdminEditMessage(k, is_read, replied)
    \/ Deliver

SpecSite == Init /\ [][NextSite]_vars

\* the contact form submitted with fields at and beyond their bounds
NextFields ==
    \/ \E i \in FieldInputIds, dbOk \in BOOLEAN : contact_view(i, dbOk)
    \/ Deliver

SpecFields == Init /\ [][NextFields]_vars

\* the detail page over a store of tagged and untagged projects
NextDetail ==
    \/ \E kind \in DetailKinds : AdminSaveProject(kind, MaxDetailProjects)
    \/ \E pid \in 1..(MaxDetailProjects + 1), sl \in DOMAIN SlugInputs, ok \in BOOLEAN :
          project_detail_view(pid, sl, ok)
    \/ Deliver

SpecDetail == Init /\ [][NextDetail]_vars

\* the listing over projects saved as time passes
NextOrder ==
    \/ \E kind \in OrderKinds : AdminAddProject(kind)
    \/ Tick
    \/ \E s \in {"none", "go"}, t \in {"none", "go"},
          pg \in {"abc", "two", "big"}, dbOk \in BOOLEAN : projects_view(s, t, pg, dbOk)
    \/ Deliver

SpecOrder == Init /\ [][NextOrder]_vars

(***************************************************************************)
(* Properties of the contact intake.                                       *)
(***************************************************************************)
\* the step in which handler h answers a request
Answers(h) == resp = NoResp /\ resp'.handler = h

\* the forms whose fields pass every validation rule, and the address each
\* one is stored under
SenderOf == [valid_a |-> T_EMAIL_A, valid_a_raw |-> T_EMAIL_A, valid_c |-> T_EMAIL_C]

\* the messages of sender e stored during the hour that ends at time t
InTrailingHour(e, t) ==
    {k \in 1..Len(contactMessages) :
        /\ contactMessages[k].email = e
        /\ t - contactMessages[k].created_at <= Hour}

ValidationMessages ==
    {E_NAME_SHORT, E_NAME_LONG, E_EMAIL, E_MESSAGE_SHORT, E_MESSAGE_LONG,
     E_SUBJECT_LONG, E_RATE}

Stored(e) ==
    /\ Len(contactMessages') = Len(contactMessages) + 1
    /\ SubSeq(contactMessages', 1, Len(contactMessages)) = contactMessages
    /\ contactMessages'[Len(contactMessages')].email = e
    /\ contactMessages'[Len(contactMessages')].created_at = now

\* C1: in info.contact_view a submission with valid fields is rejected with
\* the rate-limit error, and stores nothing, exactly when three or more
\* messages of its email address lie within the trailing hour; otherwise it is
\* stored and reported as success (or, if the insert itself raises, answered
\* with the generic failure).
C1_RateLimitWindow ==
    [][ (Answers("contact_view") /\ resp'.req \in DOMAIN SenderOf) =>
          LET e == SenderOf[resp'.req]
              n == Cardinality(InTrailingHour(e, now))
          IN  IF n >= 3
              THEN /\ resp'.errors = <<E_RATE>>
                   /\ ~resp'.success
                   /\ contactMessages' = contactMessages
              ELSE \/ resp'.success /\ resp'.errors = <<>> /\ Stored(e)
                   \/ /\ resp'.errors = <<E_GENERIC>>
                      /\ ~resp'.success
                      /\ contactMessages' = contactMessages ]_vars

\* C1 witness: a fourth message of one sender was accepted after the first
\* three had left the trailing hour.
C1_Witness ==
    /\ resp.handler = "contact_view"
    /\ resp.success
    /\ Len(contactMessages) = 4
    /\ \A k \in 1..4 : contactMessages[k].email = T_EMAIL_A
    /\ contactMessages[3].created_at = 0
    /\ contactMessages[4].created_at = Hour + 1

\* C2: at most three messages of one sender are accepted inside any one-hour
\* window, whatever the interleaving of the requests.
C2_AtMostThreePerWindow ==
    \A e \in {T_EMAIL_A, T_EMAIL_C} : \A t \in 0..now :
        Cardinality({k \in InTrailingHour(e, t) : contactMessages[k].created_at <= t})
            <= RateLimit

C4_SuccessOnlyWhenStored ==
    [][ (resp = NoResp
         /\ resp'.handler \in {"contact_view", "ContactView.post", "contact_view_function"}
         /\ resp'.success)
        => Len(contactMessages') = Len(contactMessages) + 1 ]_vars

\* C5: once validation has passed in ContactView.post the submitter sees
\* success, whether send_mail returns or raises.
C5_MailFailureKeepsSuccess ==
    [][ (Answers("ContactView.post") /\ resp'.mail # "none") => resp'.success ]_vars

\* C6: a submission that info.contact_view accepts adds exactly one row, and
\* the row is created with is_read = false and replied = false.
C6_OneUnreadRow ==
    [][ (Answers("contact_view") /\ resp'.success) =>
          /\ Len(contactMessages') = Len(contactMessages) + 1
          /\ SubSeq(contactMessages', 1, Len(contactMessages)) = contactMessages
          /\ contactMessages'[Len(contactMessages')].is_read = FALSE
          /\ contactMessages'[Len(contactMessages')].replied = FALSE ]_vars

\* C6 witness: an accepted submission whose row is the newest of the table.
C6_Witness ==
    /\ resp.handler = "contact_view"
    /\ resp.success
    /\ Len(contactMessages) >= 2
    /\ contactMessages[Len(contactMessages)].email = Cleaned[resp.req].email
    /\ ~contactMessages[Len(contactMessages)].is_read
    /\ ~contactMessages[Len(contactMessages)].replied

(***************************************************************************)
(* Properties of the project listing.                                      *)
(***************************************************************************)
Listed == resp.handler = "projects_view" /\ resp.status = 200

\* the search and tech strings a request asks for, trimmed and without markup
AskedSearch == [none |-> <<>>, go |-> <<"G","O">>, rs |-> <<"r","s">>, py |-> <<"p","y">>]
AskedTech ==
    [none |-> <<>>, go |-> <<"g","o">>, rust |-> <<"r","u","s","t">>,
     python |-> <<"p","y","t","h","o","n">>]

\* n occurs in h, letter case ignored
Occurs(n, h) ==
    \E a \in 1..(Len(h) + 1) : \E b \in (a - 1)..Len(h) :
        ToLower(SubSeq(h, a, b)) = ToLower(n)

FoundBySearch(i, q) ==
    \/ Occurs(q, projects[i].title)
    \/ Occurs(q, projects[i].short_description)
    \/ Occurs(q, projects[i].description)
    \/ \E tag \in projects[i].tech_stack : Occurs(q, tag)

TagsWith(i, tech) == {tag \in projects[i].tech_stack : Occurs(tech, tag)}

TechKnown(tech) == tech # <<>> /\ \E tag \in techTags : Occurs(tech, tag)

\* the distinct projects that match a request
Matching(q, tech) ==
    {i \in 1..Len(projects) :
        /\ q = <<>> \/ FoundBySearch(i, q)
        /\ TechKnown(tech) => TagsWith(i, tech) # {}}

RECURSIVE SumOver(_, _, _)
SumOver(S, q, tech) ==
    IF S = {} THEN 0
    ELSE LET i == CHOOSE x \in S : TRUE
         IN  Cardinality(TagsWith(i, tech)) + SumOver(S \ {i}, q, tech)

\* what the view counts: each matching project once, except under a tech
\* filter without a search, where a project counts once per tag containing tech
CountedRows(q, tech) ==
    IF q = <<>> /\ TechKnown(tech) THEN SumOver(Matching(q, tech), q, tech)
    ELSE Cardinality(Matching(q, tech))

CeilDiv(n, d) == (n + d - 1) \div d

NotPositivePages == {"zero", "minus1"}

C9_PageBeyondLastIs404 ==
    (resp.handler = "projects_view" /\ resp.req.page = "big" /\ resp.status # 500)
        => resp.status = 404

\* C10: with a search string and no tech filter, a project is in the result
\* set if and only if the string occurs, letter case ignored, in its title,
\* its short description, its description or the name of one of its tags.
C10_SearchIff ==
    (Listed /\ resp.req.search # "none" /\ resp.req.tech = "none") =>
        \A i \in 1..Len(projects) :
            (\E k \in 1..Len(resp.object_list) : resp.object_list[k] = projects[i].id)
                <=> FoundBySearch(i, AskedSearch[resp.req.search])

\* C10 witness: a search found some projects of the store and left out others.
C10_Witness ==
    /\ Listed
    /\ resp.req.search = "rs"
    /\ resp.req.tech = "none"
    /\ resp.object_list # <<>>
    /\ Len(resp.object_list) < Len(projects)

\* no project id occurs twice in a sequence of rows
NoRepeats(rows) ==
    \A a, b \in 1..Len(rows) : rows[a] = rows[b] => a = b

InRows(rows, id) == \E k \in 1..Len(rows) : rows[k] = id

\* C11: whatever the search and tech parameters, the result set holds each
\* matching project at most once and total_projects counts each project once.
C11_NoDuplicates ==
    Listed =>
        /\ NoRepeats(resp.object_list)
        /\ resp.total_projects =
              Cardinality(Matching(AskedSearch[resp.req.search], AskedTech[resp.req.tech]))

\* the answer of the same request sent without a tech parameter
WithoutTech == QueryRows(1, SearchQueries[resp.req.search], <<>>)

\* C12: when tech is a substring of no TechTag name, the result set, its order
\* and its count are those of the same request without tech.
C12_UnknownTechIsNoFilter ==
    (Listed /\ resp.req.tech # "none" /\ ~TechKnown(AskedTech[resp.req.tech])) =>
        /\ resp.object_list = WithoutTech
        /\ resp.total_projects = Len(WithoutTech)
        /\ resp.total_pages = NumPages(Len(WithoutTech))

\* C12 witness: tech=python was asked while no tag contains it, and the
\* projects of the store were listed.
C12_Witness ==
    /\ Listed
    /\ resp.req.tech = "python"
    /\ resp.req.search = "none"
    /\ ~TechKnown(AskedTech["python"])
    /\ Len(projects) >= 2
    /\ Len(resp.object_list) = Len(projects)

\* the projects whose tags are exactly Go and Rust
GoRustProjects == {i \in 1..Len(projects) : projects[i].tech_stack = {TAG_GO, TAG_RUST}}

\* C13 as stated: a project tagged exactly Go and Rust is listed for tech=go
\* and for tech=rust and is not listed for tech=python, whatever else the store
\* holds.
C13_GoRustNeverUnderPython ==
    (Listed /\ resp.req.search = "none") =>
        \A i \in GoRustProjects :
            /\ resp.req.tech \in {"go", "rust"} => InRows(resp.object_list, projects[i].id)
            /\ resp.req.tech = "python" => ~InRows(resp.object_list, projects[i].id)

\* C13 amended: a project tagged exactly Go and Rust is listed for tech=go and
\* for tech=rust; for tech=python it is left out exactly when some TechTag name
\* contains "python", and listed when none does.
C13_GoRustUnderPythonIffNoPythonTag ==
    (Listed /\ resp.req.search = "none") =>
        \A i \in GoRustProjects :
            /\ resp.req.tech \in {"go", "rust"} => InRows(resp.object_list, projects[i].id)
            /\ resp.req.tech = "python" =>
                  (InRows(resp.object_list, projects[i].id)
                      <=> ~TechKnown(AskedTech["python"]))

\* C13 witness: a Python tag exists, and tech=python left the Go and Rust
\* project out of a list that is not empty.
C13_Witness ==
    /\ Listed
    /\ resp.req.search = "none"
    /\ resp.req.tech = "python"
    /\ TechKnown(AskedTech["python"])
    /\ GoRustProjects # {}
    /\ resp.object_list # <<>>
    /\ \A i \in GoRustProjects : ~InRows(resp.object_list, projects[i].id)

\* C14: with search and tech both given and some tag containing tech, a
\* project is listed exactly when it matches the search and carries a tag
\* containing tech; the two need not be satisfied by the same tag.
C14_SearchAndTech ==
    (Listed /\ resp.req.search # "none" /\ TechKnown(AskedTech[resp.req.tech])) =>
        \A i \in 1..Len(projects) :
            InRows(resp.object_list, projects[i].id)
                <=> /\ FoundBySearch(i, AskedSearch[resp.req.search])
                    /\ TagsWith(i, AskedTech[resp.req.tech]) # {}

\* C14 witness: the search "go" with tech=rust lists a project whose Go tag
\* answers the search and whose Rust tag answers the filter, and leaves out
\* another project.
C14_Witness ==
    /\ Listed
    /\ resp.req.search = "go"
    /\ resp.req.tech = "rust"
    /\ \E i \in GoRustProjects : InRows(resp.object_list, projects[i].id)
    /\ \E i \in 1..Len(projects) : ~InRows(resp.object_list, projects[i].id)

\* the stored project with a given id
ProjectWithId(id) == CHOOSE i \in 1..Len(projects) : projects[i].id = id

\* row a stands before row b in the order: newer first, and of two projects
\* created at the same time the one with the higher id first
Before(a, b) ==
    LET pa == projects[ProjectWithId(a)]
        pb == projects[ProjectWithId(b)]
    IN  \/ pa.created_at > pb.created_at
        \/ pa.created_at = pb.created_at /\ pa.id > pb.id

Min(a, b) == IF a < b THEN a ELSE b

\* C15: the rows behind pages 1..total_pages are ordered by created_at
\* descending with id descending as tie-breaker, every page is its slice of
\* that one sequence, and the order leaves no freedom: the sequence is the same
\* on every request.
C15_StableOrder ==
    Listed =>
        /\ \A a, b \in 1..Len(resp.object_list) :
              a < b => \/ resp.object_list[a] = resp.object_list[b]
                       \/ Before(resp.object_list[a], resp.object_list[b])
        /\ resp.current_page \in 1..resp.total_pages
        /\ resp.projects =
              SubSeq(resp.object_list,
                     (resp.current_page - 1) * PageSize + 1,
                     Min(resp.current_page * PageSize, Len(resp.object_list)))
        /\ resp.total_pages = CeilDiv(Len(resp.object_list), PageSize) \/ resp.object_list = <<>>

\* C15 witness: the second page of a store of seven projects, two of them
\* created at the same time and two at different times.
C15_Witness ==
    /\ Listed
    /\ resp.req.tech = "none"
    /\ resp.current_page = 2
    /\ Len(resp.projects) = 1
    /\ \E i, j \in 1..Len(projects) :
          i # j /\ projects[i].created_at = projects[j].created_at
    /\ \E i, j \in 1..Len(projects) :
          projects[i].created_at # projects[j].created_at

\* the detail handler has answered
Detailed == resp.handler = "project_detail_view"

\* the canonical slug of a stored project, by its title
CanonicalSlug(pid) == Slugify(projects[pid].title)

\* C16: for a stored project, a request without slug or with a slug other than
\* slugify(title) is answered by a 301 to the URL of the id and the canonical
\* slug and carries no detail content; the page is rendered only when the slug
\* is the canonical one.  (Answers to a failure of the database or of the
\* template are left aside.)
C16_WrongSlugRedirects ==
    (Detailed /\ resp.req.project_id \in 1..Len(projects) /\ resp.caught # "Exception") =>
        /\ SlugInputs[resp.req.slug] # CanonicalSlug(resp.req.project_id) =>
              /\ resp.status = 301
              /\ resp.location = [project_id |-> resp.req.project_id,
                                  slug |-> CanonicalSlug(resp.req.project_id)]
              /\ resp.project = 0
        /\ resp.status = 200 =>
              SlugInputs[resp.req.slug] = CanonicalSlug(resp.req.project_id)

\* C17: every GET to the detail handler ends in 200, 301 or 404; an id with
\* no project gives 404, and so does any exception raised on the way: there is
\* no 500.
C17_OnlyThreeOutcomes ==
    Detailed =>
        /\ resp.status \in {200, 301, 404}
        /\ resp.req.project_id \notin 1..Len(projects) => resp.status = 404
        /\ resp.caught # "none" => resp.status = 404

\* C17 witness: a stored project was asked for by its canonical URL, the
\* assembly of the page failed, and the answer is 404.
C17_Witness ==
    /\ Detailed
    /\ resp.req.project_id \in 1..Len(projects)
    /\ SlugInputs[resp.req.slug] = CanonicalSlug(resp.req.project_id)
    /\ resp.caught = "Exception"
    /\ resp.status = 404

\* C18: the related projects of a rendered project P are at most 4, hold no
\* project twice, never hold P, and each shares a tag with P; they are none
\* when P has no tags.
C18_RelatedProjects ==
    (Detailed /\ resp.status = 200) =>
        LET P == projects[resp.project]
            rel == resp.related_projects
        IN  /\ Len(rel) <= 4
            /\ NoRepeats(rel)
            /\ \A k \in 1..Len(rel) :
                  /\ rel[k] # P.id
                  /\ \E i \in 1..Len(projects) :
                        /\ projects[i].id = rel[k]
                        /\ projects[i].tech_stack \cap P.tech_stack # {}
            /\ P.tech_stack = {} => rel = <<>>

\* C18 witness: five other projects share a tag with the rendered one and
\* four related projects are shown.
C18_Witness ==
    /\ Detailed
    /\ resp.status = 200
    /\ Len(resp.related_projects) = 4
    /\ Cardinality({i \in 1..Len(projects) :
          /\ i # resp.project
          /\ projects[i].tech_stack \cap projects[resp.project].tech_stack # {}}) = 5

\* the text that is left of a field once markup and surrounding whitespace
\* are gone
Bare(text) == Strip(StripTags(text))

\* C19: every stored ContactMessage has a name of 2 to 100 characters and a
\* message of 10 to 2000 characters once trimmed and stripped of markup; a
\* submission outside these bounds (say, only whitespace once the tags are
\* removed) is rejected.
C19_StoredFieldsInBounds ==
    \A k \in 1..Len(contactMessages) :
        /\ Len(Bare(contactMessages[k].name)) \in NameMin..NameMax
        /\ Len(Bare(contactMessages[k].message)) \in MessageMin..MessageMax

\* the subject bound of the persistence layer (models.py, ContactMessage.subject)
SubjectColumnMax == 150

\* C20: every ContactMessage stored through info.contact_view has a subject of
\* at most 150 characters; a longer subject is never stored.
C20_StoredSubjectFitsColumn ==
    \A k \in 1..Len(contactMessages) :
        Len(contactMessages[k].subject) <= SubjectColumnMax

\* 1 when a rule is violated, 0 when it is kept
Count(violated) == IF violated THEN 1 ELSE 0

\* the rules on name, email and message that a sanitised form violates
BasicViolations(c) ==
    Count(Len(c.name) \notin NameMin..NameMax)
        + Count(~EmailMatch(c.email))
        + Count(Len(c.message) \notin MessageMin..MessageMax)

\* the rules violated by form i: the subject is optional, and at least
\* PostSubjectMin characters long where the entry point requires one
ViolatedRules(i, subjectRequired, overLimit) ==
    BasicViolations(Cleaned[i])
        + Count(\/ Len(Cleaned[i].subject) > SubjectMax
                \/ subjectRequired /\ Len(Cleaned[i].subject) < PostSubjectMin)
        + Count(overLimit)

\* a submission that violates k > 0 rules is answered with exactly k errors
ReportsAll(k) == k > 0 => (~resp'.success /\ Len(resp'.errors) = k)

\* C21: validation does not short-circuit: in info.contact_view, in
\* ContactView.post and in contact_view_function a submission that violates k
\* of the rules (name length, email pattern, subject length, message length,
\* rate limit) gets exactly k errors in one response.
C21_OneErrorPerViolatedRule ==
    [][ /\ \A i \in DOMAIN ContactInputs, dbOk \in BOOLEAN :
              contact_view(i, dbOk) =>
                  ReportsAll(ViolatedRules(i, FALSE,
                      Cardinality(InTrailingHour(Cleaned[i].email, now)) >= RateLimit))
        /\ \A i \in DOMAIN ContactInputs, addr \in Addrs, mailOk \in BOOLEAN :
              ContactView_post(i, addr, mailOk) =>
                  ReportsAll(ViolatedRules(i, TRUE,
                      now < cache[addr].expires /\ cache[addr].value >= RateLimit))
        /\ \A i \in DOMAIN ContactInputs :
              contact_view_function(i) => ReportsAll(ViolatedRules(i, FALSE, FALSE))
      ]_vars

\* C23: whatever the projects and their titles, the sitemap is answered 200
\* with one entry for the projects index page and exactly one entry per
\* project, each with lastmod, changefreq and priority; it is never an error.
\* (Answers to a failure of the database are left aside.)
C23_SitemapListsEveryProject ==
    (resp.handler = "projects_sitemap" /\ resp.caught # "Exception") =>
        /\ resp.status = 200
        /\ Len(resp.index) = 1
        /\ Len(resp.entries) = Len(projects)
        /\ \A i \in 1..Len(projects) :
              Cardinality({k \in 1..Len(resp.entries) :
                  resp.entries[k].loc.project_id = projects[i].id}) = 1
        /\ \A k \in 1..Len(resp.entries) :
              {"lastmod", "changefreq", "priority"} \subseteq DOMAIN resp.entries[k]

\* the creation time of the stored project with a given id
CreatedAt(id) == projects[ProjectWithId(id)].created_at

\* C24: for a store of N projects the feed holds min(10, N) of them, newest
\* first, and no project left out is newer than one that is in; for N = 0 the
\* feed is empty.
C24_FeedIsTenNewest ==
    resp.handler = "ProjectsFeed.items" =>
        LET items == resp.items
            N == Len(projects)
        IN  /\ Len(items) = Min(10, N)
            /\ NoRepeats(items)
            /\ \A k \in 1..Len(items) : \E i \in 1..N : projects[i].id = items[k]
            /\ \A a, b \in 1..Len(items) :
                  a < b => CreatedAt(items[a]) >= CreatedAt(items[b])
            /\ \A i \in 1..N : ~InRows(items, projects[i].id) =>
                  \A k \in 1..Len(items) :
                      projects[i].created_at <= CreatedAt(items[k])
            /\ N = 0 => items = <<>>

\* C24 witness: eleven projects created at three different times, ten of them
\* in the feed, the oldest one left out.
C24_Witness ==
    /\ resp.handler = "ProjectsFeed.items"
    /\ Len(projects) = 11
    /\ Len(resp.items) = 10
    /\ ~InRows(resp.items, projects[1].id)
    /\ projects[1].created_at < projects[2].created_at
    /\ projects[2].created_at < projects[11].created_at

\* C25: project_detail_ajax, called as an XMLHttpRequest for an id that no
\* project has, answers 404, not 500.
C25_MissingProjectIs404 ==
    ( /\ resp.handler = "project_detail_ajax"
      /\ resp.req.xhr
      /\ resp.req.project_id \notin 1..Len(projects) ) => resp.status = 404

\* the mails of accepted submissions from an address that are at most age
\* old at time t
AcceptedWithin(addr, t, age) ==
    {k \in 1..Len(outbox) : outbox[k].addr = addr /\ t - outbox[k].at <= age}

\* C26: in ContactView.post a submission with valid fields from an address is
\* rejected by the rate limit exactly when at least 3 submissions from that
\* address were accepted within the trailing hour.  (A submission accepted
\* exactly one hour ago may count or not: a rejection needs three that are at
\* most an hour old, three that are less than an hour old force one.)
C26_CacheLimitIsTrailingHour ==
    [][ \A addr \in Addrs, mailOk \in BOOLEAN :
          ContactView_post("valid_c", addr, mailOk) =>
              /\ resp'.errors = <<E_RATE>> =>
                    Cardinality(AcceptedWithin(addr, now, Hour)) >= 3
              /\ Cardinality(AcceptedWithin(addr, now, Hour - 1)) >= 3 =>
                    resp'.errors = <<E_RATE>> ]_vars

\* a first request for a stored project that does not carry its canonical
\* slug: no slug, a wrong slug, or the legacy URL
AsksWithoutCanonicalSlug ==
    /\ resp.handler \in {"project_detail_view", "project_legacy_redirect"}
    /\ resp.req.project_id \in 1..Len(projects)
    /\ \/ resp.handler = "project_legacy_redirect"
       \/ SlugInputs[resp.req.slug] # CanonicalSlug(resp.req.project_id)

\* C27: for every stored project, a request without slug, with a wrong slug or
\* through project_legacy_redirect is answered by a redirect, and the client
\* that follows it gets the 200 detail page of that project at once: no
\* second redirect, no NotFound, no unreachable project.  (Answers to a
\* failure of the database or of the template are left aside.)
C27_OneRedirectReachesDetail ==
    /\ (AsksWithoutCanonicalSlug /\ resp.caught # "Exception") =>
          /\ resp.status = 301
          /\ resp.location.project_id = resp.req.project_id
    /\ (resp.handler = "client" /\ resp.answer.caught # "Exception") =>
          /\ resp.answer.status = 200
          /\ resp.answer.project = resp.first.req.project_id

\* C28: in the admin edit form of a stored message, a submission that changes
\* is_read saves the message with is_read = true whatever value was submitted;
\* so through the edit form is_read never goes back from true to false.
C28_IsReadOnlyRises ==
    [][ \A k \in 1..Len(contactMessages), is_read \in BOOLEAN, replied \in BOOLEAN :
          AdminEditMessage(k, is_read, replied) =>
              /\ is_read # contactMessages[k].is_read => contactMessages'[k].is_read
              /\ contactMessages[k].is_read => contactMessages'[k].is_read ]_vars

\* C28 witness: the administrator submitted the form of a message with the
\* is_read box cleared, and the message is stored as read.
C28_Witness ==
    /\ resp.handler = "ContactMessageAdmin.save_model"
    /\ ~resp.req.is_read
    /\ contactMessages[resp.req.id].is_read

\* a request of the public site is answered in this step
PublicAnswer ==
    /\ resp = NoResp
    /\ resp' # NoResp
    /\ resp'.handler # "ContactMessageAdmin.save_model"

\* C22: no public handler changes is_read or replied of a stored
\* ContactMessage, and a ContactMessage is created only by a submission to
\* info.contact_view that passed validation.
C22_PublicFlowKeepsFlags ==
    [][ PublicAnswer =>
          /\ Len(contactMessages') \in {Len(contactMessages), Len(contactMessages) + 1}
          /\ \A k \in 1..Len(contactMessages) :
                /\ contactMessages'[k].is_read = contactMessages[k].is_read
                /\ contactMessages'[k].replied = contactMessages[k].replied
          /\ Len(contactMessages') = Len(contactMessages) + 1 =>
                /\ resp'.handler = "contact_view"
                /\ ViolatedRules(resp'.req, FALSE,
                      Cardinality(InTrailingHour(Cleaned[resp'.req].email, now))
                          >= RateLimit) = 0 ]_vars

\* C22 witness: the administrator has marked the first message read and
\* replied, a later submission was stored, and the marks are still there
\* while the new message has none.
C22_Witness ==
    /\ resp.handler = "contact_view"
    /\ resp.success
    /\ Len(contactMessages) = 2
    /\ contactMessages[1].is_read
    /\ contactMessages[1].replied
    /\ ~contactMessages[2].is_read

\* the address a submitted email stands for: no surrounding whitespace, no
\* capital letters
Address(email) == ToLower(Strip(email))

\* the stored messages of the trailing hour whose email stands for address a
SameAddressInHour(a, t) ==
    {k \in 1..Len(contactMessages) :
        /\ Address(contactMessages[k].email) = a
        /\ t - contactMessages[k].created_at <= Hour}

\* C29: the rate limit of info.contact_view does not depend on the letter case
\* or the surrounding whitespace of the submitted email: submissions whose
\* emails differ only in these share one counter, and every stored email is
\* trimmed and lowercase.
C29_EmailCaseSharesCounter ==
    [][ /\ \A k \in 1..Len(contactMessages') :
              contactMessages'[k].email = Address(contactMessages'[k].email)
        /\ (Answers("contact_view") /\ resp'.req \in {"valid_a", "valid_a_raw"}) =>
              LET a == Address(ContactInputs[resp'.req].email)
              IN  /\ resp'.errors = <<E_RATE>>
                        <=> Cardinality(SameAddressInHour(a, now)) >= RateLimit
                  /\ resp'.success =>
                        contactMessages'[Len(contactMessages')].email = a ]_vars

\* C29 witness: an email written with capitals and surrounding blanks is
\* rejected by the rate limit on the count of the lowercase rows.
C29_Witness ==
    /\ resp.handler = "contact_view"
    /\ resp.req = "valid_a_raw"
    /\ resp.errors = <<E_RATE>>
    /\ Len(contactMessages) = 3
    /\ \A k \in 1..3 : contactMessages[k].email = T_EMAIL_A

\* C30: filter_projects_ajax returns at most 20 projects, none of them twice;
\* with a tech value every returned project carries a tag whose name equals
\* it up to letter case, and a tech value that equals no tag name gives the
\* empty list.
C30_AjaxFilterExactAndDistinct ==
    (resp.handler = "filter_projects_ajax" /\ resp.status = 200) =>
        LET tech == AskedTech[resp.req.tech]
            Carries(id) == \E tag \in projects[ProjectWithId(id)].tech_stack :
                              ToLower(tag) = ToLower(tech)
        IN  /\ Len(resp.projects) <= 20
            /\ NoRepeats(resp.projects)
            /\ tech # <<>> => \A k \in 1..Len(resp.projects) : Carries(resp.projects[k])
            /\ (tech # <<>> /\ \A tag \in techTags : ToLower(tag) # ToLower(tech)) =>
                  resp.projects = <<>>

====
